---- MODULE Spec2Model ----
(***************************************************************************)
(* EventEmitter (ES2015 port of EventEmitter v4.2.11): the listener        *)
(* registry and its synchronous dispatch, src/src/EventEmitter.js.         *)
(*                                                                         *)
(* The registry is the Map this._events, kept here in its insertion order  *)
(* (the order a for-of over a Map visits it).  A listener record is the    *)
(* Map {listener, once}.  Callbacks are caller code: an invoked callback   *)
(* may call any method of the emitter any number of times and then return  *)
(* any value, so the model lets every operation happen while a callback    *)
(* runs and lets the callback return every value of Values.                *)
(***************************************************************************)
EXTENDS Integers, Sequences, FiniteSets, TLC

\* ------------------------------------------------------------------ inputs

\* Event names the callers use.
Names == {"bar", "baz"}

\* Regular expressions the callers use (without the g and y flags, so that
\* RegExp.prototype.test keeps no state between calls).
RegExps == {"ba[rz]", "z$", "^u"}

\* What RegExp.prototype.test converts a missing argument to.
UndefinedString == "undefined"

\* The strings a regular expression is tested against.
Strings == Names \cup {UndefinedString}

\* Caller-supplied functions, known by identity.
Callbacks == {"f", "g"}

\* Values a callback returns and setOnceReturnValue receives.
Values == {"true", "undefined", "NaN"}

\* The most listener records the registry holds at a time, all keys together.
MaxRecords == 2

\* The deepest nesting of calls: the outermost caller's call is at depth 1, a
\* call made by a callback it invokes at depth 2, and so on.
MaxDepth == 2

\* The most calls the callbacks of one emission make to the emitter.
MaxCalls == 1

\* What a caller names an event by: a name or a regular expression.
Evts == Names \cup RegExps

\* Arrays of functions given to the bulk operations and arrays of names given
\* to defineEvents: every array of at most two elements.
ArraysOf(S) == {<<>>} \cup {<<a>> : a \in S} \cup {<<a, b>> : a \in S, b \in S}

\* Values of a Map given to a bulk operation: a function or an array.
FnValue(l) == [isArray |-> FALSE, listener |-> l, array |-> <<>>]
ArrayValue(a) == [isArray |-> TRUE, listener |-> "", array |-> a]
MapValues == {FnValue(l) : l \in Callbacks} \cup {ArrayValue(<<"f", "g">>)}

\* Maps given to a bulk operation: one entry under any event, or two entries
\* under two names.
MapEntry(k, v) == [key |-> k, isArray |-> v.isArray, listener |-> v.listener, array |-> v.array]
ListenerMaps ==
    {<<MapEntry(k, v)>> : k \in Evts, v \in MapValues}
    \cup {<<MapEntry(k[1], v), MapEntry(k[2], w)>> :
             k \in {<<"bar", "baz">>}, v \in MapValues, w \in MapValues}

\* Arguments of addListeners and removeListeners.
BulkArgs ==
    {[isMap |-> TRUE, map |-> m, evt |-> "", listeners |-> <<>>] : m \in ListenerMaps}
    \cup {[isMap |-> FALSE, map |-> <<>>, evt |-> e, listeners |-> a] :
             e \in Evts, a \in ArraysOf(Callbacks)}

\* No argument given (removeEvent()).
NoArg == "<none>"

\* this._onceReturnValue is not an own property.
NoProperty == "<no own property>"

\* What a call returns: the emitter itself (for chaining), the array or the Map
\* of getListeners; Pending while the outermost caller's emitEvent has not
\* returned.
Returns(type, array, map) == [type |-> type, array |-> array, map |-> map]
This == Returns("this", <<>>, <<>>)
Pending == Returns("pending", <<>>, <<>>)

VARIABLES
    events,           \* this._events: sequence of [key, listeners], in insertion order
    onceReturnValue,  \* this._onceReturnValue, or NoProperty
    stack,            \* emitEvent calls in progress, innermost last
    ret,              \* what the last call of the outermost caller returned,
                      \* Pending while its emitEvent is in progress
    probe,            \* which observations are recorded (fixed by the initial state)
    watch,            \* observation: the one-shot registration being followed
    done              \* observation: the emission the outermost caller has just completed

vars == <<events, onceReturnValue, stack, ret, probe, watch, done>>

\* ----------------------------------------------------------- pure helpers

\* evt instanceof RegExp
IsRegExp(evt) == evt \in RegExps

\* The strings each regular expression matches.
Language(re) ==
    CASE re = "ba[rz]" -> {"bar", "baz"}
      [] re = "z$"     -> {"baz"}
      [] re = "^u"     -> {"undefined"}

\* re.test(str)
Test(re, str) == str \in Language(re)

\* response === sentinel (strict equality: NaN equals nothing, itself included)
StrictEquals(a, b) == a = b /\ a # "NaN"

\* Function.prototype record constructor: new Map([['listener', l], ['once', o]])
Record(l, o) == [listener |-> l, once |-> o]

\* The second argument of addListener: a function, or an already built record.
Fn(l) == [wrapped |-> FALSE, listener |-> l, once |-> FALSE]
Wrapped(l, o) == [wrapped |-> TRUE, listener |-> l, once |-> o]

\* Map.prototype.has / get on this._events
Has(ev, key) == \E i \in 1..Len(ev) : ev[i].key = key
Get(ev, key) == ev[CHOOSE i \in 1..Len(ev) : ev[i].key = key].listeners
Keys(ev) == {ev[i].key : i \in 1..Len(ev)}

\* Map.prototype.set on a key that is absent: a new last entry.
SetEmpty(ev, key) == Append(ev, [key |-> key, listeners |-> <<>>])

\* Map.prototype.delete
Delete(ev, key) == SelectSeq(ev, LAMBDA e : e.key # key)

\* The registry with the array of `key` replaced (a push or a splice on it).
WithListeners(ev, key, ls) ==
    [i \in 1..Len(ev) |-> IF ev[i].key = key THEN [ev[i] EXCEPT !.listeners = ls] ELSE ev[i]]

\* Array.prototype.splice(index, 1), index counted from 0.
Splice1(arr, index) ==
    [i \in 1..(Len(arr) - 1) |-> IF i <= index THEN arr[i] ELSE arr[i + 1]]

\* ---------------------------------------------------------------- methods

\* A bug the claims are tested against: getListeners initialises an entry for
\* whatever it is given, a regular expression included.
getListenersInitialisesAll(ev, evt) == IF Has(ev, evt) THEN ev ELSE SetEmpty(ev, evt)

\* getListeners: the registry after the call (a plain key that is absent is
\* initialised with an empty array; a regular expression changes nothing).
getListenersEvents(ev, evt) ==
    IF IsRegExp(evt) \/ Has(ev, evt) THEN ev ELSE SetEmpty(ev, evt)

\* A bug the claims are tested against: the test is called without the key
\* (as the filter of removeEvent calls it).
getListenersUntested(ev, evt) == SelectSeq(ev, LAMBDA e : Test(evt, UndefinedString))

\* getListeners, regular expression branch: the entries whose key passes the test.
getListenersRegExp(ev, evt) == SelectSeq(ev, LAMBDA e : Test(evt, e.key))

\* getListeners: the response; an array for a plain key, a Map for a
\* regular expression.
getListeners(ev, evt) ==
    IF IsRegExp(evt)
      THEN Returns("map", <<>>, getListenersRegExp(ev, evt))
      ELSE Returns("array", Get(getListenersEvents(ev, evt), evt), <<>>)

\* The compiled build (unnamed/part_000): `undefined` as a key and as a value
\* of the Map its getListeners returns.
Undefined == "<undefined>"

\* The compiled build: an entry of the returned Map; `defined` tells whether
\* its value is an array of the registry or undefined.
CompiledEntry(key, defined, listeners) ==
    [key |-> key, defined |-> defined, listeners |-> listeners]

\* The compiled build, the regular expression branch of getListeners: each
\* entry the Map iterator yields is an array [key, value], of which the loop
\* reads the properties `key` and `value`, both undefined; test(undefined)
\* tests the string "undefined", and set(undefined, undefined) keeps one entry.
getListenersCompiledRegExp(ev, evt) ==
    LET tested == SelectSeq(ev, LAMBDA e : Test(evt, UndefinedString))
    IN  IF tested = <<>> THEN <<>> ELSE <<CompiledEntry(Undefined, FALSE, <<>>)>>

\* The compiled build, getListeners: the response.
getListenersCompiled(ev, evt) ==
    IF IsRegExp(evt)
      THEN [type |-> "map", array |-> <<>>, map |-> getListenersCompiledRegExp(ev, evt)]
      ELSE [type |-> "array", array |-> Get(getListenersEvents(ev, evt), evt), map |-> <<>>]

\* getListenersAsObject: always a Map, as a sequence of [key, listeners].
getListenersAsObject(ev, evt) ==
    LET listeners == getListeners(ev, evt)
    IN  IF listeners.type = "array"
          THEN <<[key |-> evt, listeners |-> listeners.array]>>
          ELSE listeners.map

\* A bug the claims are tested against: the search never finds the listener.
indexOfListenerNeverFinds(listeners, listener) == -1

\* indexOfListener: the first index (from 0) whose record holds `listener`, or -1.
\* A record passed as `listener` is no function, so === finds it nowhere.
indexOfListener(listeners, listener) ==
    LET hits == {i \in 1..Len(listeners) :
                    ~listener.wrapped /\ listeners[i].listener = listener.listener}
    IN  IF hits = {} THEN -1 ELSE (CHOOSE i \in hits : \A j \in hits : i <= j) - 1

\* flattenListeners
flattenListeners(listeners) == [i \in 1..Len(listeners) |-> listeners[i].listener]

\* addListener, the loop over the resolved entries from entry i on.
RECURSIVE addListenerLoop(_, _, _, _)
addListenerLoop(ev, listeners, listener, i) ==
    IF i > Len(listeners) THEN ev
    ELSE LET key == listeners[i].key
             eventListeners == listeners[i].listeners
             pushed == Append(Get(ev, key),
                              IF listener.wrapped
                                THEN Record(listener.listener, listener.once)
                                ELSE Record(listener.listener, FALSE))
         IN  addListenerLoop(
                 IF indexOfListener(eventListeners, listener) = -1
                   THEN WithListeners(ev, key, pushed) ELSE ev,
                 listeners, listener, i + 1)

\* addListener: the registry after the call.
addListener(ev, evt, listener) ==
    addListenerLoop(getListenersEvents(ev, evt), getListenersAsObject(ev, evt),
                    listener, 1)

\* addOnceListener
addOnceListener(ev, evt, l) == addListener(ev, evt, Wrapped(l, TRUE))

\* removeListener, the loop over the resolved entries from entry i on.
RECURSIVE removeListenerLoop(_, _, _, _)
removeListenerLoop(ev, listeners, listener, i) ==
    IF i > Len(listeners) THEN ev
    ELSE LET event == listeners[i].key
             index == indexOfListener(listeners[i].listeners, listener)
         IN  removeListenerLoop(
                 IF index # -1
                   THEN WithListeners(ev, event, Splice1(Get(ev, event), index)) ELSE ev,
                 listeners, listener, i + 1)

\* A bug the claims are tested against: the index is not compared with -1, and
\* splice(-1, 1) takes the last record of the array.
removeListenerUnchecked(ev, evt, l) ==
    LET ev1 == getListenersEvents(ev, evt)
        listeners == getListenersAsObject(ev, evt)
        resolved(key) == \E i \in 1..Len(listeners) : listeners[i].key = key
        spliced(arr) ==
            IF arr = <<>> THEN arr
            ELSE IF indexOfListener(arr, Fn(l)) = -1 THEN SubSeq(arr, 1, Len(arr) - 1)
            ELSE Splice1(arr, indexOfListener(arr, Fn(l)))
    IN  [i \in 1..Len(ev1) |->
            IF resolved(ev1[i].key)
              THEN [ev1[i] EXCEPT !.listeners = spliced(@)] ELSE ev1[i]]

\* A bug the claims are tested against: a key whose last record is removed is
\* deleted from the registry.
removeListenerDeletesEmptied(ev, evt, l) ==
    LET ev2 == removeListenerLoop(getListenersEvents(ev, evt),
                                  getListenersAsObject(ev, evt), Fn(l), 1)
    IN  SelectSeq(ev2, LAMBDA e : \/ e.listeners # <<>>
                                  \/ ~Has(ev, e.key)
                                  \/ Get(ev, e.key) = <<>>)

\* removeListener: the registry after the call.
removeListener(ev, evt, l) ==
    removeListenerLoop(getListenersEvents(ev, evt), getListenersAsObject(ev, evt),
                       Fn(l), 1)

\* removeEvent, regular expression branch: the keys the filter keeps for deletion.
\* The filter calls evt.test() without the key.
eventsToDelete(ev, evt) ==
    SelectSeq([i \in 1..Len(ev) |-> ev[i].key], LAMBDA e : Test(evt, UndefinedString))

\* A bug the claims are tested against: without an argument the listener
\* arrays are emptied and their keys are kept.
removeEventKeepsKeys(ev, evt) ==
    IF evt \in Names THEN Delete(ev, evt)
    ELSE IF IsRegExp(evt)
      THEN LET del == eventsToDelete(ev, evt)
           IN  SelectSeq(ev, LAMBDA e : \A i \in 1..Len(del) : del[i] # e.key)
      ELSE [i \in 1..Len(ev) |-> [ev[i] EXCEPT !.listeners = <<>>]]

\* removeEvent: the registry after the call.
removeEvent(ev, evt) ==
    IF evt \in Names THEN Delete(ev, evt)
    ELSE IF IsRegExp(evt)
      THEN LET del == eventsToDelete(ev, evt)
           IN  SelectSeq(ev, LAMBDA e : \A i \in 1..Len(del) : del[i] # e.key)
      ELSE <<>>

\* A bug the claims are tested against: defineEvent sets an empty array under
\* the key, whether the key is there or not.
defineEventResets(ev, evt) ==
    IF Has(ev, evt) THEN WithListeners(ev, evt, <<>>) ELSE SetEmpty(ev, evt)

\* defineEvent
defineEvent(ev, evt) == getListenersEvents(ev, evt)

\* defineEvents: evts.forEach(defineEvent)
RECURSIVE defineEvents(_, _)
defineEvents(ev, evts) ==
    IF evts = <<>> THEN ev ELSE defineEvents(defineEvent(ev, Head(evts)), Tail(evts))

\* The single operation manipulateListeners picks: removeListener or addListener.
single(ev, remove, evt, l) ==
    IF remove THEN removeListener(ev, evt, l) ELSE addListener(ev, evt, Fn(l))

\* A bug the claims are tested against: only the first element of the array
\* is passed to the single operation.
forEachFirstOnly(ev, remove, evt, listeners) ==
    IF listeners = <<>> THEN ev
    ELSE single(ev, remove, evt, Head(listeners))

\* listeners.forEach(listener => single.call(this, evt, listener))
RECURSIVE forEachSingle(_, _, _, _)
forEachSingle(ev, remove, evt, listeners) ==
    IF listeners = <<>> THEN ev
    ELSE forEachSingle(single(ev, remove, evt, Head(listeners)), remove, evt,
                       Tail(listeners))

\* manipulateListeners with a Map as evt, the loop over its entries from entry
\* i on: a function goes to the single operation, an array to the bulk
\* operation, which ends in the forEach branch as its evt is no Map.
RECURSIVE manipulateMap(_, _, _, _)
manipulateMap(ev, remove, evt, i) ==
    IF i > Len(evt) THEN ev
    ELSE manipulateMap(
             IF evt[i].isArray
               THEN forEachSingle(ev, remove, evt[i].key, evt[i].array)
               ELSE single(ev, remove, evt[i].key, evt[i].listener),
             remove, evt, i + 1)

\* manipulateListeners: the registry after the call.  A bulk argument is
\* [isMap, map, evt, listeners]: a Map of key -> function or array, or an
\* event and an array of functions.
manipulateListeners(ev, remove, arg) ==
    IF arg.isMap THEN manipulateMap(ev, remove, arg.map, 1)
    ELSE forEachSingle(ev, remove, arg.evt, arg.listeners)

\* addListeners / removeListeners
addListeners(ev, arg) == manipulateListeners(ev, FALSE, arg)
removeListeners(ev, arg) == manipulateListeners(ev, TRUE, arg)

\* _getOnceReturnValue
getOnceReturnValue(v) == IF v # NoProperty THEN v ELSE "true"

\* ------------------------------------------------------------- dispatch

\* One emitEvent call in progress, stopped inside listener.call(...):
\*   evt    the argument of emitEvent (a name or a regular expression)
\*   event  the key whose listeners are being called
\*   copy   copyOfListeners, the slice taken when the loop reached `event`
\*   li     the place in copy of the listener now running (from 1)
\*   rest   the entries of listenersMap the outer loop has not reached
\*   calls  the calls the callbacks of this emission have made to the emitter
\* and, as observations (see probe), added, removed and hit.
\* An entry of rest holds a reference to the array the key had when emitEvent
\* resolved evt.  While the key is in the registry that array is the
\* registry's own.  Once removeEvent deletes the key nothing writes to the
\* array any more (every write goes through this._events.get(key)), so the
\* entry keeps the content the array had at that moment (detached).
Entry(key) == [key |-> key, detached |-> FALSE, listeners |-> <<>>]

\* The array an entry of listenersMap refers to.
EntryListeners(ev, e) == IF e.detached THEN e.listeners ELSE Get(ev, e.key)

\* listenersMap as the outer loop of emitEvent receives it.
listenersMap(ev, evt) ==
    LET m == getListenersAsObject(ev, evt)
    IN  [i \in 1..Len(m) |-> Entry(m[i].key)]

\* The frame of an emitEvent call that has resolved evt and entered no loop yet.
Frame(ev, evt) ==
    [evt |-> evt, event |-> evt, copy |-> <<>>, li |-> 0,
     rest |-> listenersMap(ev, evt), calls |-> 0,
     added |-> {}, removed |-> {}, hit |-> {}]

\* The outer loop passes over the entries whose array is empty.
RECURSIVE SkipEmpty(_, _)
SkipEmpty(ev, rest) ==
    IF rest = <<>> THEN rest
    ELSE IF EntryListeners(ev, Head(rest)) # <<>> THEN rest
    ELSE SkipEmpty(ev, Tail(rest))

\* listeners.slice()
Slice(listeners) == listeners

\* A bug the claims are tested against: the inner loop runs over the
\* registry's own array instead of the slice.
liveListeners(ev, fr) == IF Has(ev, fr.event) THEN Get(ev, fr.event) ELSE <<>>

\* The array the inner loop of emitEvent runs over: the slice.
copyOfListeners(ev, fr) == fr.copy

\* The frame moved to its next listener, or <<>> when both loops are done.
NextFrame(ev, fr) ==
    LET c == copyOfListeners(ev, fr)
        r == SkipEmpty(ev, fr.rest)
    IN  IF fr.li < Len(c) THEN <<[fr EXCEPT !.copy = c, !.li = fr.li + 1]>>
        ELSE IF r = <<>> THEN <<>>
        ELSE <<[fr EXCEPT !.event = Head(r).key,
                          !.copy = Slice(EntryListeners(ev, Head(r))),
                          !.li = 1,
                          !.rest = Tail(r)]>>

\* The record whose callback the frame is running.
Current(fr) == fr.copy[fr.li]

\* A bug the claims are tested against: the once flag is not acted on.
onceIgnored(ev, fr) == ev

\* if (once) this.removeListener(event, listener): the registry as the callback
\* of the frame finds it.
onceRemoval(ev, fr) ==
    IF Current(fr).once THEN removeListener(ev, fr.event, Current(fr).listener) ELSE ev

\* A bug the claims are tested against: the response is compared with true,
\* whatever setOnceReturnValue has set.
sentinelAlwaysTrue(ev, fr, response, sentinel) ==
    IF response = "true" THEN removeListener(ev, fr.evt, Current(fr).listener) ELSE ev

\* if (response === this._getOnceReturnValue()) this.removeListener(evt, listener)
sentinelRemoval(ev, fr, response, sentinel) ==
    IF StrictEquals(response, getOnceReturnValue(sentinel))
      THEN removeListener(ev, fr.evt, Current(fr).listener) ELSE ev

\* removeEvent has deleted keys: the entries that referred to their arrays keep
\* the content the arrays had.
Detach(st, before, after) ==
    [i \in 1..Len(st) |->
        [st[i] EXCEPT !.rest =
            [j \in 1..Len(st[i].rest) |->
                LET e == st[i].rest[j]
                IN  IF ~e.detached /\ ~Has(after, e.key)
                      THEN [e EXCEPT !.detached = TRUE, !.listeners = Get(before, e.key)]
                      ELSE e]]]

\* The number of records in the entries of the registry from entry i on.
RECURSIVE Records(_, _)
Records(ev, i) == IF i > Len(ev) THEN 0 ELSE Len(ev[i].listeners) + Records(ev, i + 1)

\* The registry holds no more records than the model builds.
Fits(ev) == Records(ev, 1) <= MaxRecords

\* A bug the claims are tested against: a method ends without `return this`.
ReturnedUndefined(r) ==
    IF stack # <<>> THEN Pending
    ELSE IF r = This THEN Returns("undefined", <<>>, <<>>) ELSE r

\* The caller outside every callback sees what its call returns; what a call
\* made by a running callback returns stays inside the callback.
Returned(r) == IF stack = <<>> THEN r ELSE Pending

\* The caller is the program outside every callback, or the running callback
\* as long as the emission has calls left and the call does not nest too deep.
MayCall ==
    IF stack = <<>> THEN TRUE
    ELSE Len(stack) < MaxDepth /\ stack[Len(stack)].calls < MaxCalls

\* The stack with the call counted that the running callback makes.
Counted(st) ==
    IF st = <<>> THEN st ELSE [st EXCEPT ![Len(st)].calls = st[Len(st)].calls + 1]

\* ----------------------------------------------------------- observations
\* History the claims speak about and the program does not keep.  None of it
\* is read by the model of the program.  probe names what is recorded:
\*   "once"       watch: a one-shot registration and the calls of its callback
\*   "calls"      added, removed: what the listeners of an emission added to
\*                and removed from the registry while it was in progress
\*   "responses"  hit, done: which callbacks answered with the once value

\* The number of records of callback l under key.
Count(ev, key, l) ==
    IF Has(ev, key)
      THEN Cardinality({i \in 1..Len(Get(ev, key)) : Get(ev, key)[i].listener = l})
      ELSE 0

\* The keys under which a call has added, or removed, a record of l.
Gained(ev, ev2, l) == {k \in Keys(ev2) : Count(ev2, k, l) > Count(ev, k, l)}
Dropped(ev, ev2, l) == {k \in Keys(ev) : Count(ev2, k, l) < Count(ev, k, l)}

\* l is still to be called for the key the frame is dispatching.
PendingIn(fr, l) == \E i \in (fr.li + 1)..Len(fr.copy) : fr.copy[i].listener = l

\* The frame has not reached key k and refers to the registry's array for it.
LaterLive(fr, k) == \E j \in 1..Len(fr.rest) : fr.rest[j].key = k /\ ~fr.rest[j].detached

\* The frame has not reached key k and holds a detached array for it with l in it.
LaterDetachedWith(fr, k, l) ==
    \E j \in 1..Len(fr.rest) :
        /\ fr.rest[j].key = k /\ fr.rest[j].detached
        /\ \E i \in 1..Len(fr.rest[j].listeners) : fr.rest[j].listeners[i].listener = l

\* No one-shot registration is being followed.
NoWatch ==
    [on |-> FALSE, key |-> "", listener |-> "", again |-> FALSE, calls |-> 0,
     emitted |-> FALSE]

\* addOnceListener(key, l) by the outermost caller while l has no record under
\* key: the registration to follow.
Watched(key, l) ==
    [on |-> TRUE, key |-> key, listener |-> l, again |-> FALSE, calls |-> 0,
     emitted |-> FALSE]

\* The outermost caller is in control and nothing is left to follow: the
\* followed callback has no record left without its key having been emitted,
\* or it was registered again.
Settled(w, ev2, st) ==
    IF w.on /\ st = <<>> /\ (w.again \/ (~w.emitted /\ Count(ev2, w.key, w.listener) = 0))
      THEN NoWatch ELSE w

\* A call has made the registry ev2.  A followed callback that the outermost
\* caller registers again is followed no longer; one that a listener registers
\* again is followed, as registered again, to the end of the emission.
Rewatch(ev2) ==
    IF watch.on /\ Count(ev2, watch.key, watch.listener) > Count(events, watch.key, watch.listener)
      THEN IF stack = <<>> THEN NoWatch ELSE [watch EXCEPT !.again = TRUE]
      ELSE Settled(watch, ev2, stack)

\* The frame begins to call a callback: one more call if it is the followed one.
Invoked(w, fr) ==
    IF w.on /\ w.key = fr.event /\ w.listener = Current(fr).listener
      THEN [w EXCEPT !.calls = IF @ < 2 THEN @ + 1 ELSE @] ELSE w

\* What a listener's addListener call added, as each emission in progress sees
\* it: the callback l under key, newly (l was not already due to be called for
\* the key), `later` when the emission has the key still ahead and will slice
\* the array the record went to, and li, the place the emission was at.
NoteAdded(st, ev, ev2, l) ==
    IF probe # "calls" THEN st
    ELSE [i \in 1..Len(st) |->
            [st[i] EXCEPT !.added = @ \cup
                {[key |-> k, listener |-> l, later |-> LaterLive(st[i], k),
                  li |-> IF k = st[i].event THEN st[i].li ELSE 0] :
                   k \in {k \in Gained(ev, ev2, l) :
                            /\ ~(k = st[i].event /\ PendingIn(st[i], l))
                            /\ ~LaterDetachedWith(st[i], k, l)}}]]

\* What a listener's removeListener call removed that an emission in progress
\* had not yet called: the callback l, another than the one that made the
\* call, under key, `later` when the emission has the key still ahead, fired
\* once the emission has called it all the same.
NoteRemoved(st, ev, ev2, l) ==
    IF probe # "calls" THEN st
    ELSE [i \in 1..Len(st) |->
            [st[i] EXCEPT !.removed = @ \cup
                {[key |-> k, listener |-> l, later |-> k # st[i].event, fired |-> FALSE] :
                   k \in {k \in Dropped(ev, ev2, l) :
                            /\ l # Current(st[Len(st)]).listener
                            /\ \/ k = st[i].event /\ PendingIn(st[i], l)
                               \/ LaterLive(st[i], k)}}]]

\* The frame begins to call a callback: what was removed of it is called all
\* the same.
Fired(fr) ==
    [fr EXCEPT !.removed =
        {IF e.key = fr.event /\ e.listener = Current(fr).listener
           THEN [e EXCEPT !.fired = TRUE] ELSE e : e \in fr.removed}]

\* The callback of the frame answers `response`: noted when it is the once value.
Answered(fr, response) ==
    IF probe = "responses" /\ StrictEquals(response, getOnceReturnValue(onceReturnValue))
      THEN [fr EXCEPT !.hit = @ \cup {Current(fr).listener}] ELSE fr

\* No emission has just been completed.
NoEmission == [valid |-> FALSE, evt |-> "", copy |-> <<>>, hit |-> {}]

\* The emission of the frame, completed for the outermost caller: noted when
\* it was the emission of a name during which no callback called the emitter.
Completed(st, fr) ==
    IF probe = "responses" /\ st = <<>> /\ fr.evt \in Names /\ fr.calls = 0
      THEN [valid |-> TRUE, evt |-> fr.evt, copy |-> fr.copy, hit |-> fr.hit]
      ELSE NoEmission

\* The emission of the frame is completed with the registry ev2: noted for a
\* followed registration when the outermost caller emitted its key.  The
\* registration is then followed through one more such emission.
Emitted(ev2, st, fr) ==
    IF watch.on /\ st = <<>> /\ fr.evt = watch.key
      THEN IF watch.emitted THEN NoWatch
           ELSE [watch EXCEPT !.emitted = TRUE, !.calls = 0]
      ELSE Settled(watch, ev2, st)

\* ------------------------------------------------------------------ state

InitWith(p) ==
    /\ events = <<>>
    /\ onceReturnValue = NoProperty
    /\ stack = <<>>
    /\ ret = This
    /\ probe = p
    /\ watch = NoWatch
    /\ done = NoEmission

Init == InitWith("none")
InitOnce == InitWith("once")
InitCalls == InitWith("calls")
InitResponses == InitWith("responses")

\* The part shared by every method that calls no callback: the registry
\* becomes ev, the call returns r, the observations become st and w.
Call(ev, r, st, w) ==
    /\ MayCall
    /\ Fits(ev)
    /\ events' = ev
    /\ ret' = Returned(r)
    /\ stack' = Counted(st)
    /\ watch' = w
    /\ done' = NoEmission
    /\ UNCHANGED <<onceReturnValue, probe>>

GetListenersOf(evt) ==
    LET ev == getListenersEvents(events, evt)
    IN  Call(ev, getListeners(events, evt), stack, Rewatch(ev))

AddListenerOf(evt, l) ==
    LET ev == addListener(events, evt, Fn(l))
    IN  Call(ev, This, NoteAdded(stack, events, ev, l), Rewatch(ev))

AddOnceListenerOf(evt, l) ==
    LET ev == addOnceListener(events, evt, l)
    IN  Call(ev, This, stack,
             IF probe = "once" /\ stack = <<>> /\ evt \in Names /\ Count(events, evt, l) = 0
               THEN Watched(evt, l) ELSE Rewatch(ev))

RemoveListenerOf(evt, l) ==
    LET ev == removeListener(events, evt, l)
    IN  Call(ev, This, NoteRemoved(stack, events, ev, l), Rewatch(ev))

DefineEventOf(evt) ==
    LET ev == defineEvent(events, evt)
    IN  Call(ev, This, stack, Rewatch(ev))

DefineEventsOf(evts) ==
    LET ev == defineEvents(events, evts)
    IN  Call(ev, This, stack, Rewatch(ev))

AddListenersOf(arg) ==
    LET ev == addListeners(events, arg)
    IN  Call(ev, This, stack, Rewatch(ev))

RemoveListenersOf(arg) ==
    LET ev == removeListeners(events, arg)
    IN  Call(ev, This, stack, Rewatch(ev))

RemoveEventOf(evt) ==
    LET ev == removeEvent(events, evt)
    IN  Call(ev, This, Detach(stack, events, ev), Rewatch(ev))

SetOnceReturnValueOf(value) ==
    /\ MayCall
    /\ onceReturnValue' = value
    /\ ret' = Returned(This)
    /\ stack' = Counted(stack)
    /\ done' = NoEmission
    /\ watch' = Settled(watch, events, stack)
    /\ UNCHANGED <<events, probe>>

\* The loops of emitEvent from frame fr on, up to the next listener.call or
\* to the return of emitEvent; st is the stack under the frame.
Run(ev, st, fr) ==
    LET nf == NextFrame(ev, fr)
    IN  IF nf = <<>>
          THEN /\ events' = ev
               /\ stack' = st
               /\ ret' = IF st = <<>> THEN This ELSE Pending
               /\ watch' = Emitted(ev, st, fr)
               /\ done' = Completed(st, fr)
          ELSE /\ events' = onceRemoval(ev, nf[1])
               /\ stack' = Append(st, Fired(nf[1]))
               /\ ret' = Pending
               /\ watch' = Invoked(watch, nf[1])
               /\ done' = NoEmission

\* emitEvent(evt, args) up to its first listener.call (emit and trigger pass
\* their arguments on to emitEvent).
EmitEventOf(evt) ==
    /\ MayCall
    /\ Run(getListenersEvents(events, evt), Counted(stack), Frame(events, evt))
    /\ UNCHANGED <<onceReturnValue, probe>>

\* The running callback returns `response`; emitEvent goes on to its next
\* listener.call or returns.
ReturnOf(response) ==
    /\ stack # <<>>
    /\ Run(sentinelRemoval(events, stack[Len(stack)], response, onceReturnValue),
           SubSeq(stack, 1, Len(stack) - 1),
           Answered(stack[Len(stack)], response))
    /\ UNCHANGED <<onceReturnValue, probe>>

GetListeners == \E evt \in Evts : GetListenersOf(evt)
AddListener == \E evt \in Evts, l \in Callbacks : AddListenerOf(evt, l)
AddOnceListener == \E evt \in Evts, l \in Callbacks : AddOnceListenerOf(evt, l)
RemoveListener == \E evt \in Evts, l \in Callbacks : RemoveListenerOf(evt, l)
DefineEvent == \E evt \in Names : DefineEventOf(evt)
DefineEvents == \E evts \in ArraysOf(Names) : DefineEventsOf(evts)
AddListeners == \E arg \in BulkArgs : AddListenersOf(arg)
RemoveListeners == \E arg \in BulkArgs : RemoveListenersOf(arg)
RemoveEvent == \E evt \in Evts \cup {NoArg} : RemoveEventOf(evt)
SetOnceReturnValue == \E value \in Values : SetOnceReturnValueOf(value)
EmitEvent == \E evt \in Evts : EmitEventOf(evt)
Return == \E response \in Values : ReturnOf(response)

Next ==
    \/ GetListeners
    \/ AddListener
    \/ AddOnceListener
    \/ RemoveListener
    \/ DefineEvent
    \/ DefineEvents
    \/ AddListeners
    \/ RemoveListeners
    \/ RemoveEvent
    \/ SetOnceReturnValue
    \/ EmitEvent
    \/ Return

Spec == Init /\ [][Next]_vars
SpecOnce == InitOnce /\ [][Next]_vars
SpecCalls == InitCalls /\ [][Next]_vars
SpecResponses == InitResponses /\ [][Next]_vars

\* ----------------------------------------------------------------- claims

\* C1 (as the specification states it): in every reachable state no key's
\* array holds two records of the same callback.  The code breaks it:
\* addOnceListener hands indexOfListener a record, which no stored function
\* is identical to, so the record is pushed whatever the array holds.
C1_NoDuplicateCallbacks ==
    \A i \in 1..Len(events) :
        \A a, b \in 1..Len(events[i].listeners) :
            a # b => events[i].listeners[a].listener # events[i].listeners[b].listener

\* C6 (as the specification states it): removeEvent(pattern) deletes exactly
\* the entries whose key matches the pattern and leaves every other entry as
\* it is.  The code breaks it: the filter tests the string "undefined"
\* instead of the key.
C6_RemoveEventDeletesMatching ==
    [][\A re \in RegExps :
          RemoveEventOf(re) =>
              events' = SelectSeq(events, LAMBDA e : e.key \notin Language(re))]_vars

\* C8 (as the specification states it): in an emission of a name during which
\* no callback calls the emitter, each listener of the key is called exactly
\* once, so no callback is among the calls made so far twice.  (The calls go
\* through the slice of the key's array in its order, the order of
\* registration.)  The code breaks it through the duplicates of C1.
C8_EachListenerFiresOnce ==
    \A n \in 1..Len(stack) :
        (stack[n].evt \in Names /\ stack[n].calls = 0) =>
            \A a, b \in 1..stack[n].li :
                a # b => stack[n].copy[a].listener # stack[n].copy[b].listener

\* The bulk argument names events by regular expressions only.
BulkByRegExp(arg) ==
    IF arg.isMap THEN \A i \in 1..Len(arg.map) : IsRegExp(arg.map[i].key)
    ELSE IsRegExp(arg.evt)

\* A call addressed by a regular expression; of emitEvent the part up to its
\* first listener.call, which holds the resolution of the keys.
RegExpAddressed ==
    \/ \E re \in RegExps : GetListenersOf(re) \/ EmitEventOf(re)
    \/ \E re \in RegExps, l \in Callbacks :
          AddListenerOf(re, l) \/ AddOnceListenerOf(re, l) \/ RemoveListenerOf(re, l)
    \/ \E arg \in BulkArgs :
          BulkByRegExp(arg) /\ (AddListenersOf(arg) \/ RemoveListenersOf(arg))

\* C9: no call addressed by a regular expression adds a key to the registry:
\* the keys after the call are among the keys before it.  (Stated by
\* contraposition: a step after which the registry holds a key it did not
\* hold before is no call addressed by a regular expression.)
C9_RegExpAddsNoKey ==
    [][~(Keys(events') \subseteq Keys(events)) => ~RegExpAddressed]_vars

\* C9, witness: getListeners has answered a regular expression that matches
\* none of the keys the registry holds with an empty Map, and the registry
\* holds every name as a key and records.
C9_Witness ==
    /\ ret.type = "map" /\ ret.map = <<>>
    /\ Keys(events) = Names
    /\ \E i \in 1..Len(events) : events[i].listeners # <<>>

\* C10: getListeners(pattern) returns a Map whose keys are exactly the keys of
\* the registry that match the pattern, each once and with the key's array,
\* and leaves the registry as it is.  (Stated of the calls of the outermost
\* caller, whose return value the model keeps.)
C10_GetListenersByRegExp ==
    [][\A re \in RegExps :
          (stack = <<>> /\ GetListenersOf(re)) =>
              /\ ret'.type = "map"
              /\ {ret'.map[i].key : i \in 1..Len(ret'.map)}
                     = {k \in Keys(events) : k \in Language(re)}
              /\ Len(ret'.map) = Cardinality({k \in Keys(events) : k \in Language(re)})
              /\ \A i \in 1..Len(ret'.map) :
                     ret'.map[i].listeners = Get(events, ret'.map[i].key)
              /\ events' = events]_vars

\* C10, witness: getListeners has answered a regular expression with one key
\* and its listeners while the registry holds a second key, with listeners,
\* that the regular expression does not match.
C10_Witness ==
    /\ ret.type = "map" /\ Len(ret.map) = 1 /\ ret.map[1].listeners # <<>>
    /\ Len(events) = 2
    /\ \A i \in 1..Len(events) : events[i].listeners # <<>>

\* C2 (as the specification states it): a callback registered once under a
\* key by addOnceListener, and not registered again, is called at most once for
\* that key, emissions begun by listeners during an emission of the key
\* included.  The code breaks it: an emission of the key begun by a listener
\* calls the callback, and the emission in progress, whose slice still holds
\* the record, calls it again.
C2_OnceCalledAtMostOnce ==
    (watch.on /\ ~watch.again) => watch.calls <= 1

\* C3 (as the specification states it): after addOnceListener(k, f) and one
\* emission of k by the same caller, no record of f is left under k and f is
\* not called for k again.
C3_Original ==
    (watch.on /\ watch.emitted) =>
        Count(events, watch.key, watch.listener) = 0 /\ watch.calls = 0

\* C3 (amended): when f has no record under k, then after addOnceListener(k, f)
\* and one emission of k by the same caller during which no listener registers
\* f again, no record of f is left under k, and f is not called for k again
\* until it is registered again.
C3_OnceRemovedByEmit ==
    (watch.on /\ ~watch.again /\ watch.emitted) =>
        Count(events, watch.key, watch.listener) = 0 /\ watch.calls = 0

\* C3, witness: after addOnceListener(k, f) and a completed emission of k, a
\* second emission of k by the same caller is calling a listener.
C3_Witness ==
    /\ watch.on /\ ~watch.again /\ watch.emitted
    /\ stack # <<>>
    /\ stack[1].evt = watch.key

\* C4 (as the specification states it): when emitEvent returns, every listener
\* that a removeListener call of a listener took from the registry before the
\* emission had called it has been called by the emission all the same.
C4_Original ==
    [][Len(stack') < Len(stack) =>
          \A e \in stack[Len(stack)].removed : e.fired]_vars

\* C4 (amended): the same of the listeners of the key whose listeners the
\* emission was calling when removeListener was called (a listener removed
\* from a key that the emission of a pattern had not yet reached is not called).
C4_RemovedStillFires ==
    [][Len(stack') < Len(stack) =>
          \A e \in stack[Len(stack)].removed : ~e.later => e.fired]_vars

\* C4, witness: an emission has called a listener that an earlier listener of
\* the same key had removed.
C4_Witness ==
    \E n \in 1..Len(stack) : \E e \in stack[n].removed : ~e.later /\ e.fired

\* C5 (as the specification states it): no emission calls a listener that a
\* listener's addListener call added while the emission was in progress.
C5_Original ==
    \A n \in 1..Len(stack) :
        \A e \in stack[n].added :
            ~(/\ e.key = stack[n].event
              /\ e.listener = Current(stack[n]).listener
              /\ stack[n].li > e.li)

\* C5 (amended): the same of the listeners added to any key but one that the
\* emission of a pattern had matched and not yet reached (the emission slices
\* the array of such a key after the addition and calls the new listener).
C5_AddedDoesNotFire ==
    \A n \in 1..Len(stack) :
        \A e \in stack[n].added :
            ~e.later =>
                ~(/\ e.key = stack[n].event
                  /\ e.listener = Current(stack[n]).listener
                  /\ stack[n].li > e.li)

\* C5, witness: a listener has added a listener to the key being emitted and
\* the emission has gone on to call the next listener of its slice.
C5_Witness ==
    \E n \in 1..Len(stack) :
        \E e \in stack[n].added :
            ~e.later /\ e.key = stack[n].event /\ stack[n].li > e.li

\* s is t with some of its elements left out.
RECURSIVE IsSubSeq(_, _)
IsSubSeq(s, t) ==
    IF s = <<>> THEN TRUE
    ELSE IF t = <<>> THEN FALSE
    ELSE IF Head(s) = Head(t) THEN IsSubSeq(Tail(s), Tail(t))
    ELSE IsSubSeq(s, Tail(t))

\* C7 (as the specification states it): after an emission of k, a listener g
\* that was registered under k without the once flag is registered no longer
\* if it returned the once value, and is where it was in the array of k if
\* it returned another value.  (Stated of emissions during which no callback
\* calls the emitter.)
C7_Original ==
    done.valid =>
        \A i \in 1..Len(done.copy) :
            ~done.copy[i].once =>
                IF done.copy[i].listener \in done.hit
                  THEN Count(events, done.evt, done.copy[i].listener) = 0
                  ELSE /\ i <= Len(Get(events, done.evt))
                       /\ Get(events, done.evt)[i] = done.copy[i]

\* C7 (amended): after an emission of k during which no callback calls the
\* emitter, a listener g that was registered under k without the once flag
\* is registered no longer if it returned a value strictly equal (===) to
\* the once value, and is still registered under k if it did not; the
\* listeners left under k are in the order they were in.
C7_SentinelRemoval ==
    done.valid =>
        /\ \A i \in 1..Len(done.copy) :
               ~done.copy[i].once =>
                   IF done.copy[i].listener \in done.hit
                     THEN Count(events, done.evt, done.copy[i].listener) = 0
                     ELSE Count(events, done.evt, done.copy[i].listener) > 0
        /\ IsSubSeq(Get(events, done.evt), done.copy)

\* C7, witness: an emission is completed in which one listener without the
\* once flag returned the once value that setOnceReturnValue had set, and
\* another returned another value.
C7_Witness ==
    /\ done.valid
    /\ onceReturnValue \notin {NoProperty, "true"}
    /\ \E i, j \in 1..Len(done.copy) :
          /\ ~done.copy[i].once /\ done.copy[i].listener \in done.hit
          /\ ~done.copy[j].once /\ done.copy[j].listener \notin done.hit

\* The keys a call addresses by evt: the name itself, or the keys of the
\* registry that the regular expression matches.
Targets(ev, evt) == IF IsRegExp(evt) THEN {k \in Keys(ev) : k \in Language(evt)} ELSE {evt}

\* The callback l has no record under any key that evt addresses.
NoRecordUnder(ev, evt, l) == \A k \in Targets(ev, evt) : Count(ev, k, l) = 0

\* C11 (as the specification states it): removeListener(k, f) when f has no
\* record under k leaves the registry, its keys and their arrays, as it was.
C11_Original ==
    [][\A evt \in Evts, l \in Callbacks :
          (NoRecordUnder(events, evt, l) /\ RemoveListenerOf(evt, l)) =>
              events' = events]_vars

\* C11 (amended): removeListener(k, f) when f has no record under k changes no
\* array of the registry; when k is a name that is no key of the registry yet
\* the call adds it as a new last key with an empty array, and otherwise the
\* registry is as it was.  (The call is made in every state: nothing is raised.)
C11_RemoveAbsentListener ==
    [][\A evt \in Evts, l \in Callbacks :
          (NoRecordUnder(events, evt, l) /\ RemoveListenerOf(evt, l)) =>
              events' = IF evt \in Names /\ evt \notin Keys(events)
                          THEN Append(events, [key |-> evt, listeners |-> <<>>])
                          ELSE events]_vars

\* C11, witness: a key holds a record of another callback and none of f, and
\* removeListener of f for that key is a step that leaves the registry as it is.
C11_Witness ==
    /\ Has(events, "bar") /\ Get(events, "bar") # <<>>
    /\ Count(events, "bar", "f") = 0
    /\ ENABLED (RemoveListenerOf("bar", "f") /\ events' = events)

\* A call of any method but removeEvent, or a part of emitEvent between the
\* calls of two listeners.
NotRemoveEvent ==
    \/ GetListeners \/ AddListener \/ AddOnceListener \/ RemoveListener
    \/ DefineEvent \/ DefineEvents \/ AddListeners \/ RemoveListeners
    \/ SetOnceReturnValue \/ EmitEvent \/ Return

\* C12: every step but a removeEvent call, the steps of listeners during an
\* emission included, keeps every key of the registry.  (Stated by
\* contraposition: a step after which a key is missing is none of the other
\* steps.)
C12_KeysPersist ==
    [][~(Keys(events) \subseteq Keys(events')) => ~NotRemoveEvent]_vars

\* C12, witness: a listener is running, a key holds the one record of f, and
\* removeListener of f for that key is a step that leaves the key with an
\* empty array.
C12_Witness ==
    /\ stack # <<>>
    /\ Has(events, "bar") /\ Get(events, "bar") = <<Record("f", FALSE)>>
    /\ ENABLED (RemoveListenerOf("bar", "f") /\ Has(events', "bar")
                                            /\ Get(events', "bar") = <<>>)


\* The keys that have at least one record in registry ev.
Populated(ev) == {k \in Keys(ev) : Get(ev, k) # <<>>}

\* The first callback emitEvent(evt) would call from registry ev: the empty
\* tuple when the emission calls nothing.
FirstCall(ev, evt) == NextFrame(getListenersEvents(ev, evt), Frame(ev, evt))

\* C13: removeEvent() without an argument leaves the registry without any
\* key, and from the registry it leaves, emitEvent on a key that had records
\* before the call reaches no listener.call.
C13_RemoveAllEvents ==
    [][RemoveEventOf(NoArg) =>
          /\ Keys(events') = {}
          /\ \A k \in Populated(events) : FirstCall(events', k) = <<>>]_vars

\* C13 happens: the registry has records and removeEvent() empties it.
C13_Witness ==
    /\ Populated(events) # {}
    /\ \E k \in Populated(events) : FirstCall(events, k) # <<>>
    /\ ENABLED (RemoveEventOf(NoArg) /\ events' = <<>>)


\* The single calls a bulk argument stands for, in order: [evt, listener]
\* per element of the array, or per entry of the Map (a function once, an
\* array element by element).
SinglesOfEntry(e) ==
    IF e.isArray THEN [i \in 1..Len(e.array) |-> [evt |-> e.key, listener |-> e.array[i]]]
    ELSE <<[evt |-> e.key, listener |-> e.listener]>>
Singles(arg) ==
    IF ~arg.isMap
      THEN [i \in 1..Len(arg.listeners) |-> [evt |-> arg.evt, listener |-> arg.listeners[i]]]
    ELSE IF Len(arg.map) = 1 THEN SinglesOfEntry(arg.map[1])
    ELSE SinglesOfEntry(arg.map[1]) \o SinglesOfEntry(arg.map[2])

\* The registry after the single calls `calls` made one after the other.
RECURSIVE ApplySingles(_, _, _)
ApplySingles(ev, remove, calls) ==
    IF calls = <<>> THEN ev
    ELSE ApplySingles(IF remove THEN removeListener(ev, calls[1].evt, calls[1].listener)
                      ELSE addListener(ev, calls[1].evt, Fn(calls[1].listener)),
                      remove, Tail(calls))

\* The single calls with every regular expression replaced by the key k.
SinglesAt(arg, k) ==
    LET calls == Singles(arg)
    IN  [i \in 1..Len(calls) |->
            IF IsRegExp(calls[i].evt) THEN [calls[i] EXCEPT !.evt = k] ELSE calls[i]]

\* The bulk call with argument arg, adding or removing, leaves the registry
\* the single calls leave, and under every key a regular expression of arg
\* matches it leaves what the calls addressed to that key leave there.
BulkAsSingles(remove, arg) ==
    LET after == IF remove THEN removeListeners(events, arg) ELSE addListeners(events, arg)
        calls == Singles(arg)
        matched == {k \in Keys(events) :
                       \E i \in 1..Len(calls) : IsRegExp(calls[i].evt) /\ Test(calls[i].evt, k)}
    IN  /\ after = ApplySingles(events, remove, calls)
        /\ \A k \in matched :
              Get(after, k) = Get(ApplySingles(events, remove, SinglesAt(arg, k)), k)

\* C14: in every state, addListeners and removeListeners leave the registry
\* that the corresponding addListener and removeListener calls leave when
\* made one after the other, for the array form and for the Map form, and a
\* regular expression reaches every materialized key it matches.
C14_BulkAsSingles ==
    \A arg \in BulkArgs : BulkAsSingles(FALSE, arg) /\ BulkAsSingles(TRUE, arg)

\* C14 happens: a bulk removal of two callbacks by a regular expression that
\* matches two keys removes each callback from the key it is under.
C14_Witness ==
    /\ Has(events, "bar") /\ Get(events, "bar") = <<Record("f", FALSE)>>
    /\ Has(events, "baz") /\ Get(events, "baz") = <<Record("g", FALSE)>>
    /\ ENABLED (/\ RemoveListenersOf([isMap |-> FALSE, map |-> <<>>, evt |-> "ba[rz]",
                                      listeners |-> <<"f", "g">>])
                /\ Get(events', "bar") = <<>> /\ Get(events', "baz") = <<>>)


\* The records of callback l under key k, in the order of the array.
RecordsOf(ev, k, l) == SelectSeq(Get(ev, k), LAMBDA r : r.listener = l)

\* C15: addListener(evt, f), called when f has no record under the keys evt
\* addresses, leaves exactly one record of f under each of them, a record
\* that is not one-shot, and a second addListener(evt, f) leaves the registry
\* as the first call left it.
C15_AddListenerTwice ==
    [][\A evt \in Evts, l \in Callbacks :
          (NoRecordUnder(events, evt, l) /\ AddListenerOf(evt, l)) =>
              /\ \A k \in Targets(events', evt) :
                    RecordsOf(events', k, l) = <<Record(l, FALSE)>>
              /\ addListener(events', evt, Fn(l)) = events']_vars

\* C15 happens: f is added to a key that holds another callback, and a
\* second addListener finds it there.
C15_Witness ==
    /\ Has(events, "bar") /\ Get(events, "bar") # <<>> /\ Count(events, "bar", "f") = 0
    /\ ENABLED (/\ AddListenerOf("bar", "f")
                /\ Count(events', "bar", "f") = 1
                /\ indexOfListener(Get(events', "bar"), Fn("f")) = 1)


\* Registry ev2 is registry ev with the keys ks materialized where they were
\* absent: every key of ev keeps its array, the keys of ks that ev lacks hold
\* an empty array, and there is no other key.
Materialized(ev, ev2, ks) ==
    /\ Keys(ev2) = Keys(ev) \cup ks
    /\ \A k \in Keys(ev) : Get(ev2, k) = Get(ev, k)
    /\ \A k \in ks \ Keys(ev) : Get(ev2, k) = <<>>

\* The elements of an array.
Elements(a) == {a[i] : i \in 1..Len(a)}

\* defineEvent on each element of the array ks, one call after the other.
RECURSIVE DefineEach(_, _)
DefineEach(ev, ks) ==
    IF ks = <<>> THEN ev ELSE DefineEach(defineEvent(ev, Head(ks)), Tail(ks))

\* C16: defineEvent(k) materializes k with an empty array when it is absent
\* and changes nothing when it is there, a second defineEvent(k) changes
\* nothing, defineEvents(ks) leaves what defineEvent on each element leaves,
\* and no other key is touched.
C16_DefineEvent ==
    [][/\ \A k \in Names :
             DefineEventOf(k) =>
                 /\ Materialized(events, events', {k})
                 /\ Has(events, k) => events' = events
                 /\ defineEvent(events', k) = events'
       /\ \A ks \in ArraysOf(Names) :
             DefineEventsOf(ks) =>
                 /\ events' = DefineEach(events, ks)
                 /\ Materialized(events, events', Elements(ks))]_vars

\* C16 happens: defineEvents on a key that holds a record and on an absent
\* key keeps the record and materializes the absent key.
C16_Witness ==
    /\ Has(events, "bar") /\ Get(events, "bar") # <<>> /\ ~Has(events, "baz")
    /\ ENABLED (/\ DefineEventOf("bar")
                /\ events' = events)
    /\ ENABLED (/\ DefineEventsOf(<<"bar", "baz">>)
                /\ Get(events', "bar") = Get(events, "bar")
                /\ Has(events', "baz") /\ Get(events', "baz") = <<>>)


\* A call of a method that changes the emitter, or the return of a callback
\* that emitEvent has called.
Mutating ==
    \/ AddListener
    \/ AddOnceListener
    \/ RemoveListener
    \/ DefineEvent
    \/ DefineEvents
    \/ AddListeners
    \/ RemoveListeners
    \/ RemoveEvent
    \/ SetOnceReturnValue
    \/ EmitEvent
    \/ Return

\* C17: whenever a method that changes the emitter returns to the outermost
\* caller, it returns the emitter; emitEvent returns it when its last
\* callback has returned.  (Stated by contraposition: a step that leaves the
\* outermost caller with anything else is a step of no such method.)
C17_ReturnsThis ==
    [][(stack' = <<>> /\ ret' # This) => ~Mutating]_vars

\* C17 happens: after getListeners has returned an array, a removeListener
\* that finds nothing to remove returns the emitter, and so does an emitEvent
\* that finds nothing to call.
C17_Witness ==
    /\ stack = <<>> /\ ret.type = "array"
    /\ ENABLED (RemoveListenerOf("z$", "f") /\ events' = events /\ ret' = This)
    /\ ENABLED (EmitEventOf("ba[rz]") /\ stack' = <<>> /\ ret' = This)


\* The frame of the running callback, and the callback it runs.
Running == stack[Len(stack)]
RunningListener == Current(Running).listener

\* The running callback was called by an emitEvent addressed by a regular
\* expression, and `response` is the value setOnceReturnValue has set.
SentinelByRegExp(response) ==
    /\ stack # <<>>
    /\ IsRegExp(Running.evt)
    /\ StrictEquals(response, getOnceReturnValue(onceReturnValue))

\* emitEvent goes on from the running callback to a one-shot record of the
\* same callback under key k (which it removes before the call).
GoesOnToOnce(k) ==
    /\ Len(stack') = Len(stack)
    /\ stack'[Len(stack')].event = k
    /\ Current(stack'[Len(stack')]).listener = RunningListener
    /\ Current(stack'[Len(stack')]).once

\* C18: when a callback that emitEvent(regular expression) has called for key
\* k returns the value setOnceReturnValue has set, no other key loses a
\* record of the callback by that (a one-shot record is removed when its own
\* turn comes), and a matched key still to come that holds records has its
\* listeners called: the emission does not end there.
C18_SentinelUnderKeyOnly ==
    [][\A response \in Values :
          (SentinelByRegExp(response) /\ ReturnOf(response)) =>
              /\ \A k \in Keys(events) \ {Running.event} :
                    Count(events', k, RunningListener) < Count(events, k, RunningListener)
                    => GoesOnToOnce(k)
              /\ (\E i \in 1..Len(Running.rest) :
                      EntryListeners(events, Running.rest[i]) # <<>>)
                 => Len(stack') = Len(stack)]_vars


\* C19: removeListener(k, f), called when f is registered under k, leaves f
\* unregistered under k and the other records of k as they were, in their
\* order and with their once flags, and leaves every other key with the
\* array it had.
C19_RemoveRegistered ==
    [][\A k \in Names, l \in Callbacks :
          (Count(events, k, l) >= 1 /\ RemoveListenerOf(k, l)) =>
              /\ Get(events', k) = SelectSeq(Get(events, k), LAMBDA r : r.listener # l)
              /\ Keys(events') = Keys(events)
              /\ \A j \in Keys(events) \ {k} : Get(events', j) = Get(events, j)]_vars


\* The response r of the class and the response c of the compiled build are
\* the same: the same array, or Maps of the same keys to the same arrays.
Agree(r, c) ==
    /\ r.type = c.type
    /\ r.array = c.array
    /\ Len(r.map) = Len(c.map)
    /\ \A i \in 1..Len(r.map) :
          /\ c.map[i].defined
          /\ c.map[i].key = r.map[i].key
          /\ c.map[i].listeners = r.map[i].listeners

\* C20: in every state and for every argument, a key or a regular
\* expression, getListeners of the class and getListeners of the compiled
\* build return the same.
C20_SameGetListeners ==
    \A evt \in Evts : Agree(getListeners(events, evt), getListenersCompiled(events, evt))


\* emitEvent called by the outermost caller, not by a listener.
EmitEventOutermost == stack = <<>> /\ EmitEvent

\* The emitter when no listener calls emitEvent (a listener may call every
\* other method).
NextFlat ==
    \/ GetListeners
    \/ AddListener
    \/ AddOnceListener
    \/ RemoveListener
    \/ DefineEvent
    \/ DefineEvents
    \/ AddListeners
    \/ RemoveListeners
    \/ RemoveEvent
    \/ SetOnceReturnValue
    \/ EmitEventOutermost
    \/ Return

\* Every callback that emitEvent calls returns: if from some moment on an
\* emitEvent is in progress for ever, callbacks return time and again.  (This
\* is WF_vars(Return), a callback in progress being what enables Return.)
CallbacksReturn == <>[](stack # <<>>) => []<><<Return>>_vars

\* The emitter when no listener calls emitEvent and every callback that
\* emitEvent calls returns.
SpecReturns == Init /\ [][NextFlat]_vars /\ CallbacksReturn

\* The records under the name k as emitEvent(k) finds them when it begins.
Snapshot(k) == IF Has(events, k) THEN Get(events, k) ELSE <<>>

\* emitEvent(k) for a name k begins: it returns at once when k holds no
\* record, and calls the first record of the snapshot when it holds some.
BeginsWithSnapshot(k) ==
    IF Snapshot(k) = <<>> THEN Len(stack') = Len(stack)
    ELSE /\ Len(stack') = Len(stack) + 1
         /\ stack'[Len(stack')].copy = Snapshot(k)
         /\ stack'[Len(stack')].li = 1

\* A callback of the emission of a name returns: the emission calls the next
\* record of the same snapshot, or ends when the snapshot has no next record.
GoesOnWithSnapshot ==
    IF Running.li < Len(Running.copy)
      THEN /\ Len(stack') = Len(stack)
           /\ stack'[Len(stack')].copy = Running.copy
           /\ stack'[Len(stack')].li = Running.li + 1
      ELSE Len(stack') = Len(stack) - 1

\* C21: emitEvent(k) for a name k calls the records that were under k when it
\* began, each in its turn and no other, whatever the listeners add to k
\* meanwhile; and when every callback returns and no listener calls
\* emitEvent, every emission ends: time and again no emitEvent is in progress.
C21_EmissionTerminates ==
    /\ [][/\ \A k \in Names : EmitEventOf(k) => BeginsWithSnapshot(k)
          /\ \A response \in Values :
                (stack # <<>> /\ Running.evt \in Names /\ ReturnOf(response))
                => GoesOnWithSnapshot]_vars
    /\ []<>(stack = <<>>)

\* C21 happens: a listener of the emission of a name has added a listener to
\* the name, and the emission ends with the return of the last callback of
\* its snapshot.
C21_Witness ==
    /\ Len(stack) = 1
    /\ Running.evt \in Names
    /\ Len(Snapshot(Running.evt)) > Len(Running.copy)
    /\ \E i \in 1..Len(Snapshot(Running.evt)) :
          \A j \in 1..Len(Running.copy) :
              Snapshot(Running.evt)[i].listener # Running.copy[j].listener
    /\ ENABLED (ReturnOf("undefined") /\ stack' = <<>>)

====
